---- MODULE Spec2Model ----
(***************************************************************************)
(* Texas Cyber Events Monitor (collect_events.py): the run of main() over  *)
(* the fixed source list, the HTML-to-event extraction of each fetched     *)
(* page, and the dedupe/sort post-processing.                              *)
(*                                                                         *)
(* Text is a TLA+ string; characters are its substrings of length 1.       *)
(***************************************************************************)
EXTENDS Integers, Sequences, FiniteSets, TLC

VARIABLES pc, idx, today, ticks, fetched, candidates, evs, all_events, log, output

vars == <<pc, idx, today, ticks, fetched, candidates, evs, all_events, log, output>>

----------------------------------------------------------------------------
(* Characters and strings (Python str, re)                                 *)

\* s[i-1], and "" outside the string
Ch(s, i) == IF i >= 1 /\ i <= Len(s) THEN SubSeq(s, i, i) ELSE ""

\* s[a-1:b], a slice clamped to the string as Python clamps it
Slice(s, a, b) ==
    LET lo == IF a < 1 THEN 1 ELSE a
        hi == IF b > Len(s) THEN Len(s) ELSE b
    IN  IF lo > hi THEN "" ELSE SubSeq(s, lo, hi)

Digits == {"0", "1", "2", "3", "4", "5", "6", "7", "8", "9"}

UpperCase == "ABCDEFGHIJKLMNOPQRSTUVWXYZ"

LowerCase == "abcdefghijklmnopqrstuvwxyz"

\* printable ASCII in code-point order: " " (32) to "_" (95), "a" (97) to "~" (126)
AsciiLow == " !\"#$%&'()*+,-./0123456789:;<=>?@ABCDEFGHIJKLMNOPQRSTUVWXYZ[\\]^_"

AsciiHigh == "abcdefghijklmnopqrstuvwxyz{|}~"

IndexIn(alphabet, c) ==
    IF \E i \in 1..Len(alphabet) : Ch(alphabet, i) = c
    THEN CHOOSE i \in 1..Len(alphabet) : Ch(alphabet, i) = c
    ELSE 0

Chars(alphabet) == {Ch(alphabet, i) : i \in 1..Len(alphabet)}

OrdTable ==
    [c \in Chars(AsciiLow) \cup Chars(AsciiHigh) |->
        IF IndexIn(AsciiLow, c) > 0 THEN IndexIn(AsciiLow, c) + 31 ELSE IndexIn(AsciiHigh, c) + 96]

IsDigit(c) == c \in Digits

\* \w of re: letters, digits, underscore
WordChars == Digits \cup {"_"} \cup Chars(UpperCase) \cup Chars(LowerCase)

IsWord(c) == c \in WordChars

\* \s of re
IsSpace(c) == c \in {" ", "\t", "\n", "\r", "\f"}

LowerTable == [c \in Chars(UpperCase) |-> Ch(LowerCase, IndexIn(UpperCase, c))]

RECURSIVE MapLower(_, _, _)
\* the characters lo..hi of s, each lower-cased
MapLower(s, lo, hi) ==
    IF lo > hi THEN ""
    ELSE IF lo = hi THEN (IF Ch(s, lo) \in DOMAIN LowerTable THEN LowerTable[Ch(s, lo)] ELSE Ch(s, lo))
    ELSE MapLower(s, lo, (lo + hi) \div 2) \o MapLower(s, ((lo + hi) \div 2) + 1, hi)

\* str.lower()
lower(s) == MapLower(s, 1, Len(s))

\* str.strip(): from the first to the last character that is no whitespace
strip(s) ==
    LET ink == {i \in 1..Len(s) : ~IsSpace(Ch(s, i))}
    IN  IF ink = {} THEN ""
        ELSE Slice(s, CHOOSE i \in ink : \A j \in ink : i <= j, CHOOSE i \in ink : \A j \in ink : j <= i)

RECURSIVE CollapseWs(_, _, _)
\* the characters lo..hi of s, every run of whitespace replaced by one space
\* (written where the run ends)
CollapseWs(s, lo, hi) ==
    IF lo > hi THEN ""
    ELSE IF lo = hi
    THEN (IF ~IsSpace(Ch(s, lo)) THEN Ch(s, lo) ELSE IF IsSpace(Ch(s, lo + 1)) THEN "" ELSE " ")
    ELSE CollapseWs(s, lo, (lo + hi) \div 2) \o CollapseWs(s, ((lo + hi) \div 2) + 1, hi)

\* re.sub(r"\s+", " ", s.strip())
clean_ws(s) == CollapseWs(strip(s), 1, Len(strip(s)))

Min(S) == CHOOSE x \in S : \A y \in S : x <= y

\* number of consecutive characters of t from position i on that satisfy \s
RECURSIVE SpaceRun(_, _)
SpaceRun(t, i) == IF IsSpace(Ch(t, i)) THEN 1 + SpaceRun(t, i + 1) ELSE 0

\* k in t
Contains(t, k) == \E i \in 1..(Len(t) - Len(k) + 1) : Slice(t, i, i + Len(k) - 1) = k

StartsWith(t, i, k) == i >= 1 /\ i + Len(k) - 1 <= Len(t) /\ Slice(t, i, i + Len(k) - 1) = k

\* \b of re between t[i-1] and t[i]
WordBoundary(t, i) == IsWord(Ch(t, i - 1)) # IsWord(Ch(t, i))

\* number of digits (at most 2) a greedy \d{1,2} takes at position i
DigitRun2(t, i) ==
    IF ~IsDigit(Ch(t, i)) THEN 0 ELSE IF IsDigit(Ch(t, i + 1)) THEN 2 ELSE 1

DigitTable == [c \in Digits |-> IndexIn("0123456789", c) - 1]

RECURSIVE ToInt(_)
\* int(s) of a string of digits
ToInt(s) == IF Len(s) = 0 THEN 0 ELSE 10 * ToInt(Slice(s, 1, Len(s) - 1)) + DigitTable[Ch(s, Len(s))]

AllDigits(t, i, n) == \A j \in i..(i + n - 1) : IsDigit(Ch(t, j))

Pad2(n) == Ch("0123456789", ((n \div 10) % 10) + 1) \o Ch("0123456789", (n % 10) + 1)

Pad4(n) == Pad2(n \div 100) \o Pad2(n % 100)


----------------------------------------------------------------------------
(* Calendar (datetime)                                                     *)

IsLeap(y) == (y % 4 = 0 /\ y % 100 # 0) \/ y % 400 = 0

DaysInMonth(y, m) ==
    IF m = 2 THEN (IF IsLeap(y) THEN 29 ELSE 28)
    ELSE IF m \in {4, 6, 9, 11} THEN 30 ELSE 31

RECURSIVE DaysBeforeMonth(_, _)
DaysBeforeMonth(y, m) == IF m <= 1 THEN 0 ELSE DaysBeforeMonth(y, m - 1) + DaysInMonth(y, m - 1)

\* datetime.toordinal(): days since 0001-01-01, that day being 1
Ordinal(y, m, d) ==
    (y - 1) * 365 + (y - 1) \div 4 - (y - 1) \div 100 + (y - 1) \div 400 + DaysBeforeMonth(y, m) + d

\* dt.strftime("%Y-%m-%d")
strftime(dt) == Pad4(dt.y) \o "-" \o Pad2(dt.m) \o "-" \o Pad2(dt.d)

\* Python's None
None == [kind |-> "None"]

RaisedValueError == [kind |-> "ValueError"]

\* datetime(y, m, d)
datetime(y, m, d) ==
    IF y \in 1..9999 /\ m \in 1..12 /\ d \in 1..DaysInMonth(y, m)
    THEN [kind |-> "datetime", y |-> y, m |-> m, d |-> d]
    ELSE RaisedValueError

----------------------------------------------------------------------------
(* Date/Time recognizer                                                    *)

\* DATE_ISO = \b(20\d{2})-(\d{2})-(\d{2})\b matched at position i of t
DATE_ISO(t, i) ==
    /\ WordBoundary(t, i)
    /\ StartsWith(t, i, "20") /\ AllDigits(t, i + 2, 2)
    /\ Ch(t, i + 4) = "-" /\ AllDigits(t, i + 5, 2)
    /\ Ch(t, i + 7) = "-" /\ AllDigits(t, i + 8, 2)
    /\ WordBoundary(t, i + 10)

\* the match of DATE_MDY_SLASH whose first group is t[i..p2-2] and whose
\* second group starts at p2 and has n2 digits
MdySlashGroups(t, i, p2, n2, ok) ==
    [ok |-> /\ ok
            /\ n2 >= 1 /\ Ch(t, p2 + n2) = "/"
            /\ StartsWith(t, p2 + n2 + 1, "20") /\ AllDigits(t, p2 + n2 + 3, 2)
            /\ WordBoundary(t, p2 + n2 + 5),
     mo |-> Slice(t, i, p2 - 2),
     d  |-> Slice(t, p2, p2 + n2 - 1),
     y  |-> Slice(t, p2 + n2 + 1, p2 + n2 + 4)]

\* the match of DATE_MDY_SLASH whose first group has n1 digits
MdySlashFrom(t, i, n1) ==
    MdySlashGroups(t, i, i + n1 + 1, DigitRun2(t, i + n1 + 1),
                   WordBoundary(t, i) /\ n1 >= 1 /\ Ch(t, i + n1) = "/")

\* DATE_MDY_SLASH = \b(\d{1,2})/(\d{1,2})/(20\d{2})\b matched at position i of t:
\* ok, and its three groups
DATE_MDY_SLASH(t, i) == MdySlashFrom(t, i, DigitRun2(t, i))

\* the month alternatives of DATE_MON_NAME in the order the regex tries them
\* (each optional ending is greedy: the full name before its abbreviation)
MonthForms ==
    << "january", "jan", "february", "feb", "march", "mar", "april", "apr", "may",
       "june", "jun", "july", "jul", "august", "aug", "september", "sep", "sept",
       "october", "oct", "november", "nov", "december", "dec" >>

\* \s+(20\d{2})\b with the day group t[q..s-1] already matched: r2 spaces at u
MonNameYear(t, q, s, u, r2, ok) ==
    [ok |-> /\ ok /\ r2 >= 1
            /\ StartsWith(t, u + r2, "20") /\ AllDigits(t, u + r2 + 2, 2)
            /\ WordBoundary(t, u + r2 + 4),
     day  |-> Slice(t, q, s - 1),
     year |-> Slice(t, u + r2, u + r2 + 3)]

\* \,? at position c
MonNameComma(t, q, s, c, ok) ==
    MonNameYear(t, q, s, IF Ch(t, c) = "," THEN c + 1 ELSE c,
                SpaceRun(t, IF Ch(t, c) = "," THEN c + 1 ELSE c), ok)

\* (?:st|nd|rd|th)? at position s
MonNameSuffix(t, q, s, ok) ==
    MonNameComma(t, q, s, IF Slice(t, s, s + 1) \in {"st", "nd", "rd", "th"} THEN s + 2 ELSE s, ok)

\* (\d{1,2}) at position q
MonNameDay(t, q, ok) == MonNameSuffix(t, q, q + DigitRun2(t, q), ok /\ DigitRun2(t, q) >= 1)

\* the part of DATE_MON_NAME after the month name, at position p of the
\* lower-cased text: \s+(\d{1,2})(?:st|nd|rd|th)?\,?\s+(20\d{2})\b
MonNameRest(t, p) == MonNameDay(t, p + SpaceRun(t, p), SpaceRun(t, p) >= 1)

\* the alternatives of MonthForms with which DATE_MON_NAME matches at i
MonNameFits(t, i) ==
    {k \in 1..Len(MonthForms) :
        StartsWith(t, i, MonthForms[k]) /\ MonNameRest(t, i + Len(MonthForms[k])).ok}

\* the match with the first alternative of ks
MonNameFirst(t, i, ks) ==
    IF ~WordBoundary(t, i) \/ ks = {}
    THEN [ok |-> FALSE, mon |-> "", day |-> "", year |-> ""]
    ELSE [ok |-> TRUE, mon |-> MonthForms[Min(ks)],
          day  |-> MonNameRest(t, i + Len(MonthForms[Min(ks)])).day,
          year |-> MonNameRest(t, i + Len(MonthForms[Min(ks)])).year]

\* DATE_MON_NAME (re.I) matched at position i of the lower-cased text t:
\* ok, and its groups (the month as matched, lower-cased)
DATE_MON_NAME(t, i) == MonNameFirst(t, i, MonNameFits(t, i))

MONTHS ==
    [jan |-> 1, january |-> 1, feb |-> 2, february |-> 2, mar |-> 3, march |-> 3,
     apr |-> 4, april |-> 4, may |-> 5, jun |-> 6, june |-> 6, jul |-> 7, july |-> 7,
     aug |-> 8, august |-> 8, sep |-> 9, sept |-> 9, september |-> 9,
     oct |-> 10, october |-> 10, nov |-> 11, november |-> 11, dec |-> 12, december |-> 12]

\* re.search: the position of the leftmost match, 0 for no match
Search(hits) == IF hits = {} THEN 0 ELSE Min(hits)

\* MONTHS.get(mon_raw, MONTHS.get(mon_raw[:3])): the key that is looked up
MonKey(mon_raw) == IF mon_raw \in DOMAIN MONTHS THEN mon_raw ELSE Slice(mon_raw, 1, 3)

\* the branch of DATE_MON_NAME: the month looked up under mon_key
MonDate(m, mon_key) ==
    IF mon_key \notin DOMAIN MONTHS THEN None
    ELSE datetime(ToInt(m.year), MONTHS[mon_key], ToInt(m.day))

\* the three searches in the order of the code, each leftmost match being
\* at iso, mdy, mon (0 for none)
FirstDateAt(t, lt, iso, mdy, mon) ==
    IF iso # 0
    THEN datetime(ToInt(Slice(t, iso, iso + 3)), ToInt(Slice(t, iso + 5, iso + 6)),
                  ToInt(Slice(t, iso + 8, iso + 9)))
    ELSE IF mdy # 0
    THEN datetime(ToInt(DATE_MDY_SLASH(t, mdy).y), ToInt(DATE_MDY_SLASH(t, mdy).mo),
                  ToInt(DATE_MDY_SLASH(t, mdy).d))
    ELSE IF mon # 0 THEN MonDate(DATE_MON_NAME(lt, mon), MonKey(DATE_MON_NAME(lt, mon).mon))
    ELSE None

\* parse_first_date on the text t and its lower-cased form lt
FirstDate(t, lt) ==
    FirstDateAt(t, lt,
                Search({i \in 1..Len(t) : DATE_ISO(t, i)}),
                Search({i \in 1..Len(t) : DATE_MDY_SLASH(t, i).ok}),
                Search({i \in 1..Len(t) : DATE_MON_NAME(lt, i).ok}))

\* the first date of the text: a datetime, None, or the ValueError that
\* datetime() raises and parse_first_date does not catch
parse_first_date(text) == FirstDate(text, lower(text))

\* the end of TIME_RE with r spaces at p and the meridiem ap after them
TimeTailWith(t, p, r, ap) ==
    IF ap # "" /\ WordBoundary(t, p + r + 2) THEN [ok |-> TRUE, ap |-> ap]
    ELSE IF r > 0 /\ WordBoundary(t, p + r) THEN [ok |-> TRUE, ap |-> ""]
    ELSE IF WordBoundary(t, p) THEN [ok |-> TRUE, ap |-> ""]
    ELSE [ok |-> FALSE, ap |-> ""]

\* (am|pm) at position q, "" for neither
Meridiem(t, q) ==
    IF StartsWith(t, q, "am") THEN "am" ELSE IF StartsWith(t, q, "pm") THEN "pm" ELSE ""

\* the end of TIME_RE at position p, after the hour and the optional
\* minutes: \s*(am|pm)?\b, the regex trying the longest run of spaces first
\* and the meridiem before the empty alternative
TimeTail(t, p) == TimeTailWith(t, p, SpaceRun(t, p), Meridiem(t, p + SpaceRun(t, p)))

\* the match with the hour t[i..p0-1], given the end after the minutes
\* (withMin) and the end without them (noMin)
TimeGroups(t, i, p0, hasMin, withMin, noMin) ==
    IF hasMin /\ withMin.ok
    THEN [ok |-> TRUE, hh |-> Slice(t, i, p0 - 1), mm |-> Slice(t, p0 + 1, p0 + 2), ap |-> withMin.ap]
    ELSE IF noMin.ok
    THEN [ok |-> TRUE, hh |-> Slice(t, i, p0 - 1), mm |-> "", ap |-> noMin.ap]
    ELSE [ok |-> FALSE, hh |-> "", mm |-> "", ap |-> ""]

\* TIME_RE with an hour of n digits at position i: (\d{n})(?::(\d{2}))?\s*(am|pm)?\b
TimeWithHour(t, i, n) ==
    TimeGroups(t, i, i + n, Ch(t, i + n) = ":" /\ AllDigits(t, i + n + 1, 2),
               TimeTail(t, i + n + 3), TimeTail(t, i + n))

\* the match with the greedy hour (two) when it succeeds, else the short one
TimeFirst(t, i, n, two, one) ==
    IF ~WordBoundary(t, i) \/ n = 0 THEN [ok |-> FALSE, hh |-> "", mm |-> "", ap |-> ""]
    ELSE IF n = 2 /\ two.ok THEN two
    ELSE one

\* TIME_RE = \b(\d{1,2})(?::(\d{2}))?\s*(am|pm)?\b (re.I) matched at position i
TIME_RE(t, i) == TimeFirst(t, i, DigitRun2(t, i), TimeWithHour(t, i, 2), TimeWithHour(t, i, 1))

\* hh after the am/pm adjustment
Hour24(hh, ap) ==
    IF ap = "pm" /\ hh # 12 THEN hh + 12
    ELSE IF ap = "am" /\ hh = 12 THEN 0
    ELSE hh

\* HH:MM from the groups, "" for an hour or a minute out of range
FormatTime(hh, mm, ap) ==
    IF ap = "" /\ hh > 23 THEN ""
    ELSE IF Hour24(hh, ap) > 23 \/ mm > 59 THEN ""
    ELSE Pad2(Hour24(hh, ap)) \o ":" \o Pad2(mm)

\* the time of the match m
TimeOf(m) == FormatTime(ToInt(m.hh), ToInt(IF m.mm = "" THEN "00" ELSE m.mm), m.ap)

\* parse_first_time on the lower-cased text, the leftmost match being at i
FirstTimeAt(t, i) == IF i = 0 THEN "" ELSE TimeOf(TIME_RE(t, i))

\* parse_first_time on the lower-cased text
FirstTime(t) == FirstTimeAt(t, Search({i \in 1..Len(t) : TIME_RE(t, i).ok}))

\* the first time of the text as HH:MM, or ""
parse_first_time(text) == FirstTime(lower(text))

----------------------------------------------------------------------------
(* Geo/modality classifier                                                 *)

\* METROS, in insertion order
MetroNames == << "Dallas", "Austin", "Houston", "San Antonio" >>

METROS ==
    [c \in {MetroNames[i] : i \in 1..Len(MetroNames)} |->
        CASE c = "Dallas"  -> {"dallas", "dfw", "fort worth", "north texas", "plano", "frisco", "irving", "arlington"}
          [] c = "Austin"  -> {"austin", "atx", "round rock", "cedar park"}
          [] c = "Houston" -> {"houston", "the woodlands", "sugar land", "katy"}
          [] c = "San Antonio" -> {"san antonio", "satx"}]

\* the first metro, in the order of METROS, one of whose keys is in the
\* lower-cased text; "None" when there is none
MetroAmong(hits) == IF hits = {} THEN "None" ELSE MetroNames[Min(hits)]

\* the metros one of whose keys is in the lower-cased text t
MetroHits(t) == {i \in 1..Len(MetroNames) : \E k \in METROS[MetroNames[i]] : Contains(t, k)}

guess_metro(text) == MetroAmong(MetroHits(lower(text)))

VirtualKeywords == {"virtual", "online", "zoom", "webinar", "teams", "remote"}

\* any(k in text for k in keys)
HasAny(text, keys) == \E k \in keys : Contains(text, k)

is_virtual(text) == HasAny(lower(text), VirtualKeywords)

LIKELY_JS_OR_BLOCKED_HOST_KEYWORDS == {"meetup.com", "eventbrite.com"}

is_likely_js_or_blocked(url) == HasAny(lower(url), LIKELY_JS_OR_BLOCKED_HOST_KEYWORDS)

\* the window without its last day
within_window_open(dt, start, end) == start <= Ordinal(dt.y, dt.m, dt.d) /\ Ordinal(dt.y, dt.m, dt.d) < end

\* start <= dt <= end on datetimes at midnight, compared as day ordinals
within_window(dt, start, end) == start <= Ordinal(dt.y, dt.m, dt.d) /\ Ordinal(dt.y, dt.m, dt.d) <= end

----------------------------------------------------------------------------
(* Parsed documents (BeautifulSoup)                                        *)
(*                                                                         *)
(* soup.nodes lists the element nodes in document order.  A node has its   *)
(* tag, its set of classes, its own text (the string that precedes its     *)
(* child elements, "" for none), its href attribute (<<>> when absent) and *)
(* last, the position of its last descendant (its own when it has none).   *)
(* A node's identity (id(b)) is its position.                              *)

Node(tag, class, text, href, last) ==
    [tag |-> tag, class |-> class, text |-> text, href |-> href, last |-> last]

Positions(n) == [i \in 1..n |-> i]

RECURSIVE JoinFrom(_, _, _, _)
\* sep.join of the items of seq from position i on
JoinFrom(seq, i, sep, first) ==
    IF i > Len(seq) THEN ""
    ELSE (IF first THEN "" ELSE sep) \o seq[i] \o JoinFrom(seq, i + 1, sep, FALSE)

\* node.get_text(" "): the strings of the node and of its descendants, in
\* document order, joined by one space
get_text(soup, b) ==
    LET own == [i \in 1..(soup.nodes[b].last - b + 1) |-> soup.nodes[b + i - 1].text]
    IN  JoinFrom(SelectSeq(own, LAMBDA x : x # ""), 1, " ", TRUE)

\* the descendants of node b with one of the tags, in document order
Descendants(soup, b, tags) ==
    SelectSeq([i \in 1..(soup.nodes[b].last - b) |-> b + i],
              LAMBDA j : soup.nodes[j].tag \in tags)

\* soup.select(sel): a tag name, or .class
select(soup, sel) ==
    SelectSeq(Positions(Len(soup.nodes)),
              LAMBDA j : IF Ch(sel, 1) = "."
                         THEN Slice(sel, 2, Len(sel)) \in soup.nodes[j].class
                         ELSE soup.nodes[j].tag = sel)

\* soup.find_all([...])
find_all(soup, tags) ==
    SelectSeq(Positions(Len(soup.nodes)), LAMBDA j : soup.nodes[j].tag \in tags)

----------------------------------------------------------------------------
(* Block extractor                                                         *)

MAX_CANDIDATES_PER_SOURCE == 120

selectors ==
    << "article", "li", "tr", ".event", ".events", ".event-item", ".eventCard",
       ".tribe-events-calendar-list__event", ".tribe-events-calendar-list__event-row",
       ".views-row", ".ai1ec-event", ".calendar-event", ".post", ".type-tribe_events" >>

FallbackTags == {"article", "section", "div", "li", "tr"}

RECURSIVE SelectAll(_, _)
\* blocks after the loop over selectors[k..]
SelectAll(soup, k) ==
    IF k > Len(selectors) THEN << >>
    ELSE select(soup, selectors[k]) \o SelectAll(soup, k + 1)

\* the de-dupe by object id: a block is kept where its node was not seen
\* at an earlier position
FirstsOf(blocks) ==
    SelectSeq(Positions(Len(blocks)), LAMBDA k : \A j \in 1..(k - 1) : blocks[j] # blocks[k])

At(blocks, firsts) == [i \in 1..Len(firsts) |-> blocks[firsts[i]]]

\* the list without the de-dupe
UniqKeepsAll(blocks) == blocks

Uniq(blocks) == At(blocks, FirstsOf(blocks))

\* uniq[:n]
Take(seq, n) == IF Len(seq) <= n THEN seq ELSE SubSeq(seq, 1, n)

\* the fallback when the selectors matched nothing
BlocksOr(soup, matched) == IF matched = << >> THEN find_all(soup, FallbackTags) ELSE matched

extract_candidate_blocks(soup) ==
    Take(Uniq(BlocksOr(soup, SelectAll(soup, 1))), MAX_CANDIDATES_PER_SOURCE)


----------------------------------------------------------------------------
(* Event builder                                                           *)

DAYS_AHEAD == 90

\* " ".join(txt.split()[:n]) of a text whose words are separated by single spaces
FirstWords(txt, n) ==
    LET spaces == {i \in 1..Len(txt) : Ch(txt, i) = " "}
    IN  IF Cardinality(spaces) < n THEN txt
        ELSE Slice(txt, 1, (CHOOSE p \in spaces : Cardinality({q \in spaces : q <= p}) = n) - 1)

\* the text of block.find(tag), cleaned; "" when the block has no such tag
FirstText(soup, found) ==
    IF found = << >> THEN "" ELSE clean_ws(get_text(soup, found[1]))

\* the first of the heading texts and the anchor text that has 4 characters
\* or more, else the first ten words of the block
TitleFrom(h1, h2, h3, h4, a, words) ==
    IF Len(h1) >= 4 THEN h1
    ELSE IF Len(h2) >= 4 THEN h2
    ELSE IF Len(h3) >= 4 THEN h3
    ELSE IF Len(h4) >= 4 THEN h4
    ELSE IF Len(a) >= 4 THEN a
    ELSE words

find_best_title(soup, b) ==
    TitleFrom(FirstText(soup, Descendants(soup, b, {"h1"})),
              FirstText(soup, Descendants(soup, b, {"h2"})),
              FirstText(soup, Descendants(soup, b, {"h3"})),
              FirstText(soup, Descendants(soup, b, {"h4"})),
              FirstText(soup, Descendants(soup, b, {"a"})),
              FirstWords(clean_ws(get_text(soup, b)), 10))

\* the positions of the slashes of the path of an absolute URL
PathSlashes(base, p) == {i \in (p + 1)..Len(base) : Ch(base, i) = "/"}

\* scheme://host of a URL whose path has its slashes at sl
OriginAt(base, sl) == IF sl = {} THEN base ELSE Slice(base, 1, Min(sl) - 1)

\* scheme://host of an absolute URL
Origin(base) == OriginAt(base, PathSlashes(base, Min({i \in 1..Len(base) : StartsWith(base, i, "://")}) + 2))

BaseDirAt(base, sl) ==
    IF sl = {} THEN base \o "/" ELSE Slice(base, 1, CHOOSE i \in sl : \A j \in sl : j <= i)

\* base without the last segment of its path, ending in "/"
BaseDir(base) == BaseDirAt(base, PathSlashes(base, Min({i \in 1..Len(base) : StartsWith(base, i, "://")}) + 2))

\* urllib.parse.urljoin for a reference that is a path: absolute ("/x") or
\* relative without dot segments ("x/y")
urljoin(base, href) ==
    IF Ch(href, 1) = "/" THEN Origin(base) \o href ELSE BaseDir(base) \o href

\* normalize_url after href = href.strip()
NormalizeStripped(href, base) ==
    IF href = "" THEN ""
    ELSE IF StartsWith(href, 1, "http://") \/ StartsWith(href, 1, "https://") THEN href
    ELSE urljoin(base, href)

normalize_url(href, base) == NormalizeStripped(strip(href), base)

LinkKeywords == {"register", "registration", "rsvp", "details", "learn more", "tickets"}

\* block.find_all("a", href=True)
Anchors(soup, b) ==
    SelectSeq(Descendants(soup, b, {"a"}), LAMBDA j : soup.nodes[j].href # << >>)

\* the positions in anchors of those whose text has a keyword
Preferred(soup, anchors) ==
    {i \in 1..Len(anchors) : HasAny(lower(clean_ws(get_text(soup, anchors[i]))), LinkKeywords)}

\* preferred or anchors[0].get("href", ""): an empty preferred href gives
\* way to the first anchor's
LinkHref(soup, anchors, pref) ==
    IF pref # {} /\ soup.nodes[anchors[Min(pref)]].href[1] # ""
    THEN soup.nodes[anchors[Min(pref)]].href[1]
    ELSE soup.nodes[anchors[1]].href[1]

LinkAmong(soup, anchors, source_url) ==
    IF anchors = << >> THEN ""
    ELSE normalize_url(LinkHref(soup, anchors, Preferred(soup, anchors)), source_url)

find_best_link(soup, b, source_url) == LinkAmong(soup, Anchors(soup, b), source_url)

\* a or b or "", None being "None"
OrElse(a, b) == IF a # "None" THEN a ELSE IF b # "None" THEN b ELSE ""

\* city = guess_metro(txt) or guess_metro(group) or ""
resolve_city(txt, group) == OrElse(guess_metro(txt), guess_metro(group))

\* the check left out
virtual_kept(virtual, city) == FALSE

\* if virtual and not city
virtual_without_metro(virtual, city) == virtual /\ city = ""

\* the check left out
any_city(city) == FALSE

\* if city not in METROS
not_target_metro(city) == city \notin DOMAIN METROS

Event(org, group, city, title, dt, st_time, reg_url, source_url) ==
    [org |-> org, group |-> group, city |-> city, event_title |-> title,
     start_date |-> strftime(dt), start_time |-> st_time,
     end_date |-> strftime(dt), end_time |-> "", venue |-> "",
     registration_url |-> reg_url, source_url |-> source_url]

Kept(ev) == [outcome |-> "kept", dated |-> TRUE, ev |-> << ev >>]

Dropped(reason, dated) == [outcome |-> reason, dated |-> dated, ev |-> << >>]

\* the filters of the loop body in the order of the code, on the values
\* the body computed for the block
BlockOutcome(txt, dt, title, city, virtual, st_time, reg_url, org, group, source_url, start) ==
    IF Len(txt) < 30 THEN Dropped("too_short", FALSE)
    ELSE IF dt.kind = "ValueError" THEN [outcome |-> "raised", dated |-> FALSE, ev |-> << >>]
    ELSE IF dt.kind = "None" THEN Dropped("no_date", FALSE)
    ELSE IF ~within_window(dt, start, start + DAYS_AHEAD) THEN Dropped("out_of_window", TRUE)
    ELSE IF title = "" \/ Len(title) < 4 THEN Dropped("no_title", TRUE)
    ELSE IF virtual_without_metro(virtual, city) THEN Dropped("virtual_without_metro", TRUE)
    ELSE IF not_target_metro(city) THEN Dropped("not_target_metro", TRUE)
    ELSE Kept(Event(org, group, city, title, dt, st_time, reg_url, source_url))

\* the loop body on a block whose cleaned text is txt
BlockWithText(soup, b, txt, org, group, source_url, start) ==
    BlockOutcome(txt, parse_first_date(txt), find_best_title(soup, b), resolve_city(txt, group),
                 is_virtual(txt), parse_first_time(txt), find_best_link(soup, b, source_url),
                 org, group, source_url, start)

\* one pass of the loop body of build_events_from_html, for block b:
\* kept with its Event, dropped under a reason, or "raised" (ValueError)
evaluate_block(soup, b, org, group, source_url, start) ==
    BlockWithText(soup, b, clean_ws(get_text(soup, b)), org, group, source_url, start)

EmptyDict == [r \in {} |-> 0]

\* what the passes leave in events, dated_blocks and drops
LoopResult(pass, kept) ==
    [raised |-> \E k \in DOMAIN pass : pass[k].outcome = "raised",
     events |-> [i \in 1..Len(kept) |-> pass[kept[i]].ev[1]],
     dated_blocks |-> Cardinality({k \in DOMAIN pass : pass[k].dated}),
     drops |-> [r \in {pass[k].outcome : k \in DOMAIN pass} \ {"kept", "raised"} |->
                    Cardinality({k \in DOMAIN pass : pass[k].outcome = r})]]

\* the passes that appended an event, in order
KeptPasses(pass) == SelectSeq(Positions(Len(pass)), LAMBDA k : pass[k].outcome = "kept")

LoopOver(pass) == LoopResult(pass, KeptPasses(pass))

RECURSIVE Passes(_, _, _, _, _, _, _, _)
\* the outcomes of the passes over cands[lo..hi], in order
Passes(soup, cands, lo, hi, org, group, source_url, start) ==
    IF lo > hi THEN << >>
    ELSE IF lo = hi THEN << evaluate_block(soup, cands[lo], org, group, source_url, start) >>
    ELSE Passes(soup, cands, lo, (lo + hi) \div 2, org, group, source_url, start)
         \o Passes(soup, cands, ((lo + hi) \div 2) + 1, hi, org, group, source_url, start)

\* the loop over the candidates: what it leaves in events, dated_blocks
\* and drops when it ends, and raised when a pass raises (the loop has no
\* other way out, so it reaches every block before the one that raises)
BlockLoop(soup, cands, org, group, source_url, start) ==
    LoopOver(Passes(soup, cands, 1, Len(cands), org, group, source_url, start))

\* the return value and the log entries from the candidates and the loop's result
BuildResult(cands, r) ==
    [raised |-> r.raised, candidates |-> cands, events |-> r.events,
     candidates_total |-> Len(cands), dated_blocks |-> r.dated_blocks,
     events_kept |-> Len(r.events), drops |-> r.drops]

BuildFrom(org, group, source_url, soup, start, cands) ==
    BuildResult(cands, BlockLoop(soup, cands, org, group, source_url, start))

\* the events of one page and what the call writes into per_source_log;
\* raised when parse_first_date raises out of the loop
build_events_from_html(org, group, source_url, soup, start) ==
    BuildFrom(org, group, source_url, soup, start, extract_candidate_blocks(soup))

----------------------------------------------------------------------------
(* Collection post-processor                                               *)

\* the key without the case folding
event_key_as_written(ev) == << strip(ev.event_title), ev.start_date, strip(ev.registration_url) >>

event_key(ev) == << lower(strip(ev.event_title)), ev.start_date, lower(strip(ev.registration_url)) >>

RECURSIVE DedupeLoop(_, _, _)
DedupeLoop(events, k, seen) ==
    IF k > Len(events) THEN << >>
    ELSE IF event_key(events[k]) \in seen THEN DedupeLoop(events, k + 1, seen)
    ELSE << events[k] >> \o DedupeLoop(events, k + 1, seen \cup {event_key(events[k])})

dedupe(events) == DedupeLoop(events, 1, {})

\* a < b on Python strings: by code point at the first position where
\* they differ, a proper prefix first
StrLess(a, b) ==
    LET diff == {i \in 1..(Len(a) + 1) : Ch(a, i) # Ch(b, i)}
        i    == Min(diff)
    IN  /\ a # b
        /\ diff # {}
        /\ IF i > Len(a) THEN TRUE ELSE IF i > Len(b) THEN FALSE ELSE OrdTable[Ch(a, i)] < OrdTable[Ch(b, i)]

\* a < b on tuples of three strings
TupleLess(a, b) ==
    \/ StrLess(a[1], b[1])
    \/ a[1] = b[1] /\ StrLess(a[2], b[2])
    \/ a[1] = b[1] /\ a[2] = b[2] /\ StrLess(a[3], b[3])

\* the key without the default for an empty start time
sort_key_raw_time(ev) == << ev.start_date, ev.start_time, lower(ev.event_title) >>

\* the key k(ev) of sort_events
sort_key(ev) ==
    << ev.start_date, IF ev.start_time = "" THEN "00:00" ELSE ev.start_time, lower(ev.event_title) >>

RECURSIVE Insert(_, _)
\* x put into a sorted list after every element whose key is not greater
Insert(sorted, x) ==
    IF sorted = << >> THEN << x >>
    ELSE IF TupleLess(sort_key(x), sort_key(sorted[1])) THEN << x >> \o sorted
    ELSE << sorted[1] >> \o Insert(Tail(sorted), x)

RECURSIVE SortLoop(_, _, _)
SortLoop(events, k, sorted) ==
    IF k > Len(events) THEN sorted ELSE SortLoop(events, k + 1, Insert(sorted, events[k]))

\* sorted(events, key=k): stable
sort_events(events) == SortLoop(events, 1, << >>)


----------------------------------------------------------------------------
(* Inputs: the source list and the pages the sites may serve               *)

\* SOURCES: four of the program's fixed entries, in the program's order
\* (two that share organization and group, a Meetup page, a directory)
SOURCES ==
    << [org |-> "ISSA", group |-> "NTX Dallas", url |-> "https://www.ntxissa.org/about/calendar-of-events"],
       [org |-> "ISSA", group |-> "NTX Dallas", url |-> "https://www.ntxissa.org/upcoming"],
       [org |-> "Meetup", group |-> "dc512 ATX", url |-> "https://www.meetup.com/dc512atx/"],
       [org |-> "Directory", group |-> "GovEvents", url |-> "https://govevents.com/"] >>

Html(len, head, nodes) == [len |-> len, head |-> head, nodes |-> nodes]

\* the end-to-end fragment: one <article> with text and a link
DocAustin ==
    Html(118, "<article>Join us Feb 19, 2026 at 6pm in Austin, TX",
         << Node("article", {}, "Join us Feb 19, 2026 at 6pm in Austin, TX - ", << >>, 2),
            Node("a", {}, "Register", << "/register" >>, 2) >>)

\* a calendar page: event cards with headings and links
DocCalendar ==
    Html(5600, "<!doctype html><html><head><title>Chapter calendar</title>",
         << Node("article", {"event"}, "12am kickoff, March 1st, 2026, downtown Austin", << >>, 3),
            Node("h3", {}, "Austin Security Social", << >>, 2),
            Node("a", {}, "Details", << "https://example.org/social" >>, 3),
            Node("article", {}, "March 1st, 2026 at the Austin library", << >>, 6),
            Node("h3", {}, "Byte Night Austin", << >>, 5),
            Node("a", {}, "RSVP", << "https://example.org/byte" >>, 6),
            Node("article", {"event"}, "Doors open 7pm. March 1st, 2026, Austin TX", << >>, 9),
            Node("h3", {}, "AUSTIN  SECURITY SOCIAL ", << >>, 8),
            Node("a", {}, "Details", << " https://EXAMPLE.org/Social " >>, 9),
            Node("article", {}, "March 1st, 2026, Cedar Park, members only", << >>, 11),
            Node("h3", {}, "austin ISSA mixer", << >>, 11),
            Node("article", {}, "9 am sharp on March 1st, 2026 in Round Rock", << >>, 14),
            Node("h3", {}, "Coffee and CTF", << >>, 13),
            Node("a", {}, "Get tickets", << "ctf/tickets" >>, 14),
            Node("article", {}, "Feb 25, 2026 - Houston, TX - all day workshop", << >>, 16),
            Node("h3", {}, "Zero Trust Houston", << >>, 16) >>)

\* list items dated around the ends of the 90-day window
DocWindow ==
    Html(7000, "<!doctype html><html><head><title>Events</title>",
         << Node("ul", {}, "", << >>, 4),
            Node("li", {}, "Houston CISO roundtable, 2026-02-18, downtown", << >>, 2),
            Node("li", {}, "Dallas security summit on May 20, 2026 at noon", << >>, 3),
            Node("li", {}, "San Antonio OT workshop 5/21/2026 (all day)", << >>, 4) >>)

\* a date that matches DATE_ISO and is no calendar date, before a good block
DocBadDate ==
    Html(4800, "<!doctype html><html><head><title>Meetings</title>",
         << Node("li", {}, "ISSA chapter meeting 2026-13-45 in Plano, TX", << >>, 1),
            Node("li", {}, "Plano lunch and learn, March 3rd, 2026, noon", << >>, 2) >>)

\* a good block before dates that match DATE_MDY_SLASH / DATE_MON_NAME
\* and are no calendar dates
DocBadDay ==
    Html(4900, "<!doctype html><html><head><title>Briefings</title>",
         << Node("tr", {}, "Irving threat briefing, March 5th, 2026, noon", << >>, 1),
            Node("tr", {}, "Quarterly briefing 2/30/2026 at the Frisco office", << >>, 2),
            Node("tr", {}, "Annual meeting, Feb 31, 2026, Fort Worth", << >>, 3) >>)

\* a virtual event and an event without place, neither naming a metro
DocZoom ==
    Html(6100, "<!doctype html><html><head><title>Webinars</title>",
         << Node("li", {}, "Zoom webinar: cloud threat hunting, March 12th, 2026", << >>, 1),
            Node("li", {}, "Ransomware tabletop exercise, March 17th, 2026", << >>, 2) >>)

BigRows == 124

\* a long listing: BigRows short list items, every second one of class
\* event, and one article after them
DocBig ==
    Html(52000, "<!doctype html><html><head><title>All events</title>",
         [i \in 1..(BigRows + 1) |->
            IF i <= BigRows
            THEN Node("li", IF i % 2 = 0 THEN {"event"} ELSE {}, "Menu item", << >>, i)
            ELSE Node("article", {"post"}, "BSides San Antonio, April 4th, 2026, downtown campus", << >>, i)])

\* markup none of the selectors knows: the broad scan finds the containers
DocFallback ==
    Html(4300, "<!doctype html><html><head><title>Forum</title>",
         << Node("section", {}, "", << >>, 3),
            Node("div", {"card"}, "Houston ICS security forum, April 9th, 2026", << >>, 3),
            Node("p", {}, "Free for members", << >>, 3) >>)

\* the shell of a JavaScript-rendered page
DocShell ==
    Html(900, "<!doctype html><html><head><script src=app.js></script>",
         << Node("div", {"app"}, "", << >>, 1) >>)

\* a bot-protection interstitial
DocBlocked ==
    Html(5000, "<!doctype html><html><head><title>Attention Required! | Cloudflare</title>",
         << Node("div", {}, "Please complete the CAPTCHA to continue", << >>, 1) >>)

\* a full page without any event
DocNoEvents ==
    Html(9000, "<!doctype html><html><head><title>Group</title>",
         << Node("li", {}, "Home", << >>, 1),
            Node("li", {}, "Contact the chapter board members for sponsorship", << >>, 2) >>)

Docs ==
    [austin |-> DocAustin, calendar |-> DocCalendar, window |-> DocWindow,
     baddate |-> DocBadDate, badday |-> DocBadDay, zoom |-> DocZoom, big |-> DocBig,
     fallback |-> DocFallback, shell |-> DocShell, blocked |-> DocBlocked,
     noevents |-> DocNoEvents]

Response(status, doc) == [kind |-> "response", status_code |-> status, html |-> doc]

ConnectionError == [kind |-> "exception", exc |-> "ConnectionError: connection refused"]

\* Pages[i]: what a fetch of SOURCES[i].url may give
Pages ==
    << {ConnectionError, Response(200, "austin"), Response(404, "austin"), Response(200, "zoom"),
        Response(200, "baddate")},
       {Response(200, "austin"), Response(200, "calendar"), Response(200, "badday"),
        Response(200, "fallback")},
       {ConnectionError, Response(200, "shell"), Response(503, "blocked"), Response(200, "austin"),
        Response(200, "noevents"), Response(404, "window")},
       {Response(200, "calendar"), Response(200, "zoom"), Response(200, "window"),
        Response(200, "blocked"), Response(200, "big"), Response(200, "badday")} >>


----------------------------------------------------------------------------
(* main()                                                                  *)

MaxTicks == 1

Responses == UNION {Pages[i] : i \in 1..Len(SOURCES)}

\* the local date when the run starts
StartDay == Ordinal(2026, 2, 19)

\* the local dates the run may see
Days == StartDay..(StartDay + MaxTicks)

\* build_events_from_html for every source, page and day of the run, as an
\* explicit table (f @@ EmptyDict is f, enumerated)
ServedPages == UNION {{<< i, r.html >> : r \in {x \in Pages[i] : x.kind = "response"}} : i \in 1..Len(SOURCES)}

BuiltTable ==
    [k \in ServedPages \X Days |->
        build_events_from_html(SOURCES[k[1][1]].org, SOURCES[k[1][1]].group, SOURCES[k[1][1]].url,
                               Docs[k[1][2]], k[2])] @@ EmptyDict

\* evs = build_events_from_html(org, group, url, html, per) for SOURCES[i]
Built(i, html, day) == BuiltTable[<< << i, html >>, day >>]

BLOCK_MARKERS ==
    << "cloudflare", "access denied", "captcha", "enable javascript",
       "attention required", "incapsula", "ddos", "akamai" >>

RECURSIVE IntToStr(_)
\* str(n) of a natural number
IntToStr(n) == IF n < 10 THEN Ch("0123456789", n + 1) ELSE IntToStr(n \div 10) \o Ch("0123456789", (n % 10) + 1)

\* fetch(session, url): (response, error), the error "" standing for None
fetch(r) ==
    IF r.kind = "exception" THEN [resp |-> None, err |-> r.exc]
    ELSE IF r.status_code >= 400 THEN [resp |-> r, err |-> "HTTP " \o IntToStr(r.status_code)]
    ELSE [resp |-> r, err |-> ""]

source_key(src) == src.org \o " | " \o src.group

\* log["sources"][key] = per
SetItem(dict, key, value) == [k \in DOMAIN dict \cup {key} |-> IF k = key THEN value ELSE dict[k]]

\* [m for m in BLOCK_MARKERS if m in head], for every page, evaluated once
MarkersIn(head) == SelectSeq(BLOCK_MARKERS, LAMBDA m : Contains(head, m))

MarkersTable == [d \in DOMAIN Docs |-> MarkersIn(lower(Slice(Docs[d].head, 1, 800)))] @@ EmptyDict

\* the keys main() adds to per for a response whose page is html and
\* whose head holds the markers
PerWith(src, day, resp, html, markers) ==
    [org |-> src.org, group |-> src.group, source_url |-> src.url, fetched_at |-> day,
     status |-> resp.status_code, bytes |-> html.len,
     blocked_markers |-> markers, blocked |-> markers # << >>, tiny_html |-> html.len < 4000]

PerResponse(src, day, resp) == PerWith(src, day, resp, Docs[resp.html], MarkersTable[resp.html])

\* is_likely_js_or_blocked(url) for every source, evaluated once
JsTable == [i \in 1..Len(SOURCES) |-> is_likely_js_or_blocked(SOURCES[i].url)] @@ EmptyDict

\* if err or per["blocked"] or per["tiny_html"] or resp.status_code != 200
SavesSnapshot(per, err) == err # "" \/ per.blocked \/ per.tiny_html \/ per.status # 200

\* if per["blocked"] or (per["tiny_html"] and is_likely_js_or_blocked(url))
LooksBlocked(per, i) == per.blocked \/ (per.tiny_html /\ JsTable[i])

\* the flag left out
never_flagged(events, i) == FALSE

\* if not evs and is_likely_js_or_blocked(url)
NothingParsed(events, i) == events = << >> /\ JsTable[i]

ReviewEntry(src, reason, per, err) ==
    [source_key |-> source_key(src), source_url |-> src.url, reason |-> reason,
     status |-> per.status, saved_html |-> SavesSnapshot(per, err)]

\* per with the keys build_events_from_html writes into it
PerBuilt(per, built) ==
    [k \in DOMAIN per \cup {"candidates_total", "dated_blocks", "events_kept", "drops"} |->
        IF k \in DOMAIN per THEN per[k] ELSE built[k]]

Init ==
    /\ pc = "loop"
    /\ idx = 1
    /\ today = StartDay
    /\ ticks = 0
    /\ fetched = << >>
    /\ candidates = << >>
    /\ evs = << >>
    /\ all_events = << >>
    /\ log = [days_ahead |-> DAYS_AHEAD, sources_total |-> Len(SOURCES),
              events_extracted_raw |-> 0, events_extracted_deduped |-> 0,
              sources |-> EmptyDict, sources_failed |-> << >>, needs_manual_review |-> << >>]
    /\ output = [written |-> FALSE, events |-> << >>, log |-> << >>]

\* midnight passes while the run is between two sources
Tick ==
    /\ pc = "loop"
    /\ ticks < MaxTicks
    /\ today' = today + 1
    /\ ticks' = ticks + 1
    /\ UNCHANGED <<pc, idx, fetched, candidates, evs, all_events, log, output>>

\* one pass of the loop over SOURCES: the fetch raised (resp is None)
FetchFailed(r) ==
    /\ pc = "loop" /\ idx <= Len(SOURCES)
    /\ r \in Pages[idx]
    /\ fetch(r).resp = None
    /\ log' = [log EXCEPT
                 !.sources_failed = Append(@, [source_url |-> SOURCES[idx].url, error |-> fetch(r).err]),
                 !.sources = SetItem(@, source_key(SOURCES[idx]),
                                     [org |-> SOURCES[idx].org, group |-> SOURCES[idx].group,
                                      source_url |-> SOURCES[idx].url, fetched_at |-> today,
                                      fetch_error |-> fetch(r).err])]
    /\ fetched' = Append(fetched, [response |-> r, day |-> today])
    /\ idx' = idx + 1
    /\ UNCHANGED <<pc, today, ticks, candidates, evs, all_events, output>>

\* one pass: the page looks blocked or like a JS shell; it is not parsed
FlaggedUnparsed(r) ==
    /\ pc = "loop" /\ idx <= Len(SOURCES)
    /\ r \in Pages[idx]
    /\ fetch(r).resp # None
    /\ LooksBlocked(PerResponse(SOURCES[idx], today, fetch(r).resp), idx)
    /\ log' = [log EXCEPT
                 !.needs_manual_review =
                     Append(@, ReviewEntry(SOURCES[idx], "Blocked or JS-rendered shell detected",
                                           PerResponse(SOURCES[idx], today, fetch(r).resp), fetch(r).err)),
                 !.sources = SetItem(@, source_key(SOURCES[idx]),
                                     PerResponse(SOURCES[idx], today, fetch(r).resp))]
    /\ fetched' = Append(fetched, [response |-> r, day |-> today])
    /\ idx' = idx + 1
    /\ UNCHANGED <<pc, today, ticks, candidates, evs, all_events, output>>

\* the rest of the pass once build_events_from_html returned built
ParsedPass(src, per, err, built) ==
    /\ ~LooksBlocked(per, idx)
    /\ ~built.raised
    /\ candidates' = built.candidates
    /\ evs' = built.events
    /\ all_events' = all_events \o built.events
    /\ log' = [log EXCEPT
                 !.needs_manual_review =
                     IF NothingParsed(built.events, idx)
                     THEN Append(@, ReviewEntry(src, "No events parsed and source is likely JS-heavy (consider API/Playwright)", per, err))
                     ELSE @,
                 !.sources = SetItem(@, source_key(src), PerBuilt(per, built))]

\* one pass: the page is parsed and its events are appended
Parsed(r) ==
    /\ pc = "loop" /\ idx <= Len(SOURCES)
    /\ r \in Pages[idx]
    /\ fetch(r).resp # None
    /\ ParsedPass(SOURCES[idx], PerResponse(SOURCES[idx], today, fetch(r).resp), fetch(r).err,
                  Built(idx, fetch(r).resp.html, today))
    /\ fetched' = Append(fetched, [response |-> r, day |-> today])
    /\ idx' = idx + 1
    /\ UNCHANGED <<pc, today, ticks, output>>

\* one pass: parse_first_date raises ValueError inside build_events_from_html;
\* nothing catches it, main() ends and nothing is written
ParseRaised(r) ==
    /\ pc = "loop" /\ idx <= Len(SOURCES)
    /\ r \in Pages[idx]
    /\ fetch(r).resp # None
    /\ ~LooksBlocked(PerResponse(SOURCES[idx], today, fetch(r).resp), idx)
    /\ Built(idx, fetch(r).resp.html, today).raised
    /\ candidates' = Built(idx, fetch(r).resp.html, today).candidates
    /\ fetched' = Append(fetched, [response |-> r, day |-> today])
    /\ pc' = "crashed"
    /\ UNCHANGED <<idx, today, ticks, evs, all_events, log, output>>

\* log["events_extracted_raw"] = len(all_events); all_events = dedupe(all_events)
Dedupe ==
    /\ pc = "loop" /\ idx > Len(SOURCES)
    /\ log' = [log EXCEPT !.events_extracted_raw = Len(all_events)]
    /\ all_events' = dedupe(all_events)
    /\ pc' = "deduped"
    /\ UNCHANGED <<idx, today, ticks, fetched, candidates, evs, output>>

\* all_events = sort_events(all_events), the count of the final list,
\* write_csv, write_ics and the dump of the log
SortAndWrite ==
    /\ pc = "deduped"
    /\ all_events' = sort_events(all_events)
    /\ log' = [log EXCEPT !.events_extracted_deduped = Len(all_events')]
    /\ output' = [written |-> TRUE, events |-> all_events', log |-> log']
    /\ pc' = "done"
    /\ UNCHANGED <<idx, today, ticks, fetched, candidates, evs>>

Next ==
    \/ Tick
    \/ \E r \in Responses : FetchFailed(r)
    \/ \E r \in Responses : FlaggedUnparsed(r)
    \/ \E r \in Responses : Parsed(r)
    \/ \E r \in Responses : ParseRaised(r)
    \/ Dedupe
    \/ SortAndWrite

Spec == Init /\ [][Next]_vars

----------------------------------------------------------------------------
(* Properties                                                              *)

\* the sources whose pass has ended (the pass that raised has not)
Processed == 1..(idx - 1)

\* the pass of source i fetched a response, and it was parsed: the record
\* of the pass has the keys build_events_from_html writes
LastParsed ==
    /\ idx > 1
    /\ fetched[idx - 1].response.kind = "response"
    /\ source_key(SOURCES[idx - 1]) \in DOMAIN log.sources
    /\ "events_kept" \in DOMAIN log.sources[source_key(SOURCES[idx - 1])]

\* the record, the response, the page and the day of the last pass
LastPer == log.sources[source_key(SOURCES[idx - 1])]

LastResponse == fetched[idx - 1].response

LastDoc == Docs[fetched[idx - 1].response.html]

LastDay == fetched[idx - 1].day

\* the day number of a date written YYYY-MM-DD
DayOf(date) == Ordinal(ToInt(Slice(date, 1, 4)), ToInt(Slice(date, 6, 7)), ToInt(Slice(date, 9, 10)))

\* the count of a drop reason in a record
DropCount(per, reason) == IF reason \in DOMAIN per.drops THEN per.drops[reason] ELSE 0

\* the elements of a sequence
Range(seq) == {seq[i] : i \in DOMAIN seq}

\* C1: on a day whose window holds 2026-02-19, a source that serves (200)
\* the page with the one article "Join us Feb 19, 2026 at 6pm in Austin,
\* TX - Register" and a link yields exactly one Event, with city Austin,
\* start_date 2026-02-19, start_time 18:00 and a registration URL, and once
\* the run is done that Event is in the output
C1_AustinArticleAtSixPm ==
    \A i \in Processed :
        ( /\ fetched[i].response = Response(200, "austin")
          /\ fetched[i].day <= DayOf("2026-02-19")
          /\ DayOf("2026-02-19") <= fetched[i].day + 90 )
        => /\ (i = idx - 1 /\ pc = "loop") =>
                /\ Len(evs) = 1
                /\ evs[1].city = "Austin"
                /\ evs[1].start_date = "2026-02-19"
                /\ evs[1].start_time = "18:00"
                /\ evs[1].registration_url # ""
           /\ pc = "done" =>
                \E e \in Range(output.events) :
                    /\ e.city = "Austin" /\ e.start_date = "2026-02-19"
                    /\ e.start_time = "18:00" /\ e.registration_url # ""

\* a fetch that raised, or whose response has a status of 400 or more
FetchFailure(r) == r.kind = "exception" \/ r.status_code >= 400

\* C2: every source whose fetch raised or returned a status >= 400 is in
\* the failed-sources log and has no record of an extraction, and the
\* per-source list and the global list are as the pass found them
C2_FailedSourceIsSkipped ==
    \A i \in Processed :
        FetchFailure(fetched[i].response)
        => /\ \E f \in Range(log.sources_failed) : f.source_url = SOURCES[i].url
           /\ (i = idx - 1 /\ pc = "loop") => "candidates_total" \notin DOMAIN LastPer

\* C3: no page makes the run end in an exception: a date text naming an
\* impossible calendar date is "none found", and the run reaches its
\* post-processing
C3_MalformedDateNeverAborts == pc # "crashed"

\* a text names a target metro / holds a virtual keyword
NamesMetro(text) == \E c \in DOMAIN METROS : \E k \in METROS[c] : Contains(lower(text), k)

HoldsVirtualKeyword(text) == \E k \in VirtualKeywords : Contains(lower(text), k)

\* what the properties say of a block whose cleaned text is txt
FactsOf(soup, b, txt) ==
    [text |-> txt, date |-> parse_first_date(txt), title |-> find_best_title(soup, b),
     virtual |-> HoldsVirtualKeyword(txt), metro |-> NamesMetro(txt)]

\* the same for every node of every page, evaluated once
BlockFacts ==
    [d \in DOMAIN Docs |->
        [b \in DOMAIN Docs[d].nodes |-> FactsOf(Docs[d], b, clean_ws(get_text(Docs[d], b)))] @@ EmptyDict]
    @@ EmptyDict

\* block b of the last page
Block(b) == BlockFacts[LastResponse.html][b]

\* the day number of the first date of a block
BlockDay(f) == Ordinal(f.date.y, f.date.m, f.date.d)

\* block b of the last page is long enough, dated inside the window of the
\* pass and titled: it reaches the geographic classification
ReachesGeo(b) ==
    /\ Len(Block(b).text) >= 30
    /\ Block(b).date.kind = "datetime"
    /\ LastDay <= BlockDay(Block(b))
    /\ BlockDay(Block(b)) <= LastDay + 90
    /\ Len(Block(b).title) >= 4

\* an Event of the per-source list was built from block b: it has the
\* block's title and date
BuiltFrom(b) ==
    \E e \in Range(evs) :
        /\ e.event_title = Block(b).title
        /\ DayOf(e.start_date) = BlockDay(Block(b))

\* the candidates of the last page that are virtual and name no metro
VirtualNoMetro ==
    {k \in DOMAIN candidates :
        /\ ReachesGeo(candidates[k])
        /\ Block(candidates[k]).virtual
        /\ ~Block(candidates[k]).metro}

\* C4 as stated: every block that reaches the classification, holds a
\* virtual keyword and names no metro is dropped as virtual_without_metro
\* and gives no Event, whatever the group label of its source
C4_VirtualDroppedWhateverTheGroup ==
    LastParsed =>
        /\ DropCount(LastPer, "virtual_without_metro") = Cardinality(VirtualNoMetro)
        /\ \A k \in VirtualNoMetro : ~BuiltFrom(candidates[k])

\* C4 amended: such a block is dropped as virtual_without_metro, and gives
\* no Event, when the group label of its source names no metro either;
\* and no other block is dropped under that reason
C4_VirtualDroppedUnlessGroupNamesMetro ==
    LastParsed =>
        /\ DropCount(LastPer, "virtual_without_metro") =
              IF NamesMetro(SOURCES[idx - 1].group) THEN 0 ELSE Cardinality(VirtualNoMetro)
        /\ ~NamesMetro(SOURCES[idx - 1].group) => \A k \in VirtualNoMetro : ~BuiltFrom(candidates[k])

\* a page with a zoom webinar that names no metro was parsed for a source
\* whose group names none, and the block was dropped
C4_Witness ==
    /\ LastParsed
    /\ ~NamesMetro(SOURCES[idx - 1].group)
    /\ VirtualNoMetro # {}
    /\ DropCount(LastPer, "virtual_without_metro") = 1

\* the key of the claim: title trimmed and lower-cased, start date,
\* registration URL trimmed and lower-cased
KeyOf(e) == << lower(strip(e.event_title)), e.start_date, lower(strip(e.registration_url)) >>

\* the keys of a list
KeysOf(events) == [i \in DOMAIN events |-> KeyOf(events[i])] @@ << >>

\* out is in with, for every key, the earliest Event of that key and no
\* other, in the order of in (keys and outkeys are the keys of in and out,
\* firsts the positions of in whose key is met there first, from[j] the
\* one of them with the key of out[j])
FirstWins(in, out) ==
    \E keys \in {KeysOf(in)} : \E outkeys \in {KeysOf(out)} :
    \E firsts \in {{i \in DOMAIN in : \A j \in 1..(i - 1) : keys[j] # keys[i]}} :
        /\ Len(out) = Cardinality(firsts)
        /\ \A j \in DOMAIN out : \E i \in firsts : keys[i] = outkeys[j]
        /\ \E from \in {[j \in DOMAIN out |-> CHOOSE i \in firsts : keys[i] = outkeys[j]] @@ << >>} :
            /\ \A j \in DOMAIN out : out[j] = in[from[j]]
            /\ \A j \in 1..(Len(out) - 1) : from[j] < from[j + 1]

\* C5: the step that de-duplicates the accumulated list leaves exactly one
\* Event per distinct key, the earliest of the list with that key whatever
\* its other fields, and leaves the survivors in the order of the list
C5_FirstOccurrenceWins ==
    [][(pc = "loop" /\ pc' = "deduped") => FirstWins(all_events, all_events')]_vars

\* two sources served the calendar page, whose cards repeat within the page
\* and across the sources under another organization, and the list was
\* de-duplicated to fewer Events
C5_Witness ==
    /\ pc = "deduped"
    /\ fetched[2].response = Response(200, "calendar")
    /\ fetched[4].response = Response(200, "calendar")
    /\ Len(all_events) < log.events_extracted_raw
    /\ \E e \in Range(all_events) : e.org = "ISSA" /\ e.event_title = "Austin Security Social"
    /\ ~\E e \in Range(all_events) : e.org = "Directory" /\ e.event_title = "Austin Security Social"

\* the second component of the order: an empty start time counts as 00:00
TimeOrMidnight(e) == IF e.start_time = "" THEN "00:00" ELSE e.start_time

\* a precedes b, or ties with it, by date, then time, then lower-cased title
InOrder(a, b) ==
    \/ StrLess(a.start_date, b.start_date)
    \/ /\ a.start_date = b.start_date
       /\ \/ StrLess(TimeOrMidnight(a), TimeOrMidnight(b))
          \/ /\ TimeOrMidnight(a) = TimeOrMidnight(b)
             /\ ~StrLess(lower(b.event_title), lower(a.event_title))

\* C6 as stated: on one date every Event without a start time precedes
\* every Event with one, an Event at 00:00 included
C6_UntimedBeforeEveryTimed ==
    pc = "done" =>
        \A i, j \in DOMAIN output.events :
            ( /\ output.events[i].start_date = output.events[j].start_date
              /\ output.events[i].start_time = ""
              /\ output.events[j].start_time # "" ) => i < j

\* C6 amended: the output is ordered by date, then start time with an
\* empty time counting as 00:00, then lower-cased title; so on one date an
\* Event without a start time precedes every Event timed later than 00:00,
\* and its order with an Event at 00:00 is that of their titles
C6_SortedWithUntimedAsMidnight ==
    pc = "done" =>
        /\ \A i \in 1..(Len(output.events) - 1) : InOrder(output.events[i], output.events[i + 1])
        /\ \A i, j \in DOMAIN output.events :
            ( /\ output.events[i].start_date = output.events[j].start_date
              /\ output.events[i].start_time = ""
              /\ output.events[j].start_time \notin {"", "00:00"} ) => i < j

\* the output has, on one date, an Event at 00:00 before an untimed one
\* (their titles decide) and an untimed one before a later timed one
C6_Witness ==
    /\ pc = "done"
    /\ \E i, j, k \in DOMAIN output.events :
        /\ i < j /\ j < k
        /\ output.events[i].start_date = output.events[j].start_date
        /\ output.events[j].start_date = output.events[k].start_date
        /\ output.events[i].start_time = "00:00"
        /\ output.events[j].start_time = ""
        /\ output.events[k].start_time = "09:00"

\* the candidates of the last page that pass the length check and whose
\* first date is a calendar date outside [day, day + 90]
OutsideWindow ==
    {k \in DOMAIN candidates :
        /\ Len(Block(candidates[k]).text) >= 30
        /\ Block(candidates[k]).date.kind = "datetime"
        /\ \/ BlockDay(Block(candidates[k])) < LastDay
           \/ BlockDay(Block(candidates[k])) > LastDay + 90}

\* C7: every Event kept by a pass has a start date d with
\* day <= d <= day + 90, day being the local date of the pass; every
\* candidate that passes the length check and is dated outside gives no
\* Event and counts once under out_of_window, and nothing else does
C7_RollingWindow ==
    (LastParsed /\ pc = "loop") =>
        /\ \A e \in Range(evs) : LastDay <= DayOf(e.start_date) /\ DayOf(e.start_date) <= LastDay + 90
        /\ DropCount(LastPer, "out_of_window") = Cardinality(OutsideWindow)
        /\ \A k \in OutsideWindow :
              ~\E e \in Range(evs) : DayOf(e.start_date) = BlockDay(Block(candidates[k]))

\* the page with items dated the day before the pass, 90 and 91 days after
\* it was parsed: the first and the last are dropped, the second is kept
C7_Witness ==
    /\ LastParsed /\ pc = "loop"
    /\ LastResponse.html = "window"
    /\ DropCount(LastPer, "out_of_window") = 2
    /\ \E e \in Range(evs) : DayOf(e.start_date) = LastDay + 90
    /\ \E k \in OutsideWindow : BlockDay(Block(candidates[k])) = LastDay - 1
    /\ \E k \in OutsideWindow : BlockDay(Block(candidates[k])) = LastDay + 91

\* the target metros
TargetMetros == {"Dallas", "Austin", "Houston", "San Antonio"}

\* the candidates of the last page that reach the classification without
\* a virtual keyword and without a metro in the text or the group label
NoMetroNotVirtual ==
    {k \in DOMAIN candidates :
        /\ ReachesGeo(candidates[k])
        /\ ~Block(candidates[k]).virtual
        /\ ~Block(candidates[k]).metro
        /\ ~NamesMetro(SOURCES[idx - 1].group)}

\* C8: in every state every Event of the per-source list, of the global
\* list and of the output has a target metro as its city; a block without
\* a resolvable metro and without a virtual keyword is dropped as
\* not_target_metro
C8_CityIsTargetMetro ==
    /\ \A e \in Range(evs) \cup Range(all_events) \cup Range(output.events) : e.city \in TargetMetros
    /\ (LastParsed /\ pc = "loop") =>
          DropCount(LastPer, "not_target_metro") = Cardinality(NoMetroNotVirtual)

\* a block without metro and virtual keyword was dropped as
\* not_target_metro from a page of a source whose group names no metro
C8_Witness ==
    /\ LastParsed /\ pc = "loop"
    /\ NoMetroNotVirtual # {}
    /\ DropCount(LastPer, "not_target_metro") = 1
    /\ all_events # << >>

\* the URL holds the host keyword of a JS-heavy or bot-protected site
JsHeavyHost(url) == Contains(lower(url), "meetup.com") \/ Contains(lower(url), "eventbrite.com")

\* the manual-review entries of source i
ReviewsOf(i) == {k \in DOMAIN log.needs_manual_review : log.needs_manual_review[k].source_url = SOURCES[i].url}

\* the record of source i in the log is its own and shows no kept Event
NoEventKept(i) ==
    /\ source_key(SOURCES[i]) \in DOMAIN log.sources
    /\ log.sources[source_key(SOURCES[i])].source_url = SOURCES[i].url
    /\ \/ "events_kept" \notin DOMAIN log.sources[source_key(SOURCES[i])]
       \/ log.sources[source_key(SOURCES[i])].events_kept = 0

\* C9: a source that answered, contributed no Event and has a JS-heavy
\* host in its URL has exactly one manual-review entry, from the end of
\* its pass on and in the log that is written
C9_ZeroEventsIsFlagged ==
    /\ \A i \in Processed :
          ( /\ fetched[i].response.kind = "response"
            /\ JsHeavyHost(SOURCES[i].url)
            /\ NoEventKept(i) ) => Cardinality(ReviewsOf(i)) = 1
    /\ pc = "done" => output.log.needs_manual_review = log.needs_manual_review

\* the run is done; the Meetup source served a full page without events,
\* which was parsed, and has its entry
C9_Witness ==
    /\ pc = "done"
    /\ fetched[3].response = Response(200, "noevents")
    /\ log.sources[source_key(SOURCES[3])].events_kept = 0
    /\ Cardinality(ReviewsOf(3)) = 1
    /\ output.log.needs_manual_review # << >>

\* the nodes the selectors match in a page, selector by selector in list
\* order and in document order within a selector, a node once for every
\* selector that matches it (evaluated once for every page)
PreciseTable == [d \in DOMAIN Docs |-> SelectAll(Docs[d], 1)] @@ << >>

\* the nodes of the broad scan of a page, in document order
BroadTable == [d \in DOMAIN Docs |-> find_all(Docs[d], FallbackTags)] @@ << >>

PreciseMatches == PreciseTable[LastResponse.html]

\* the discovery order: the precise pass, or the broad scan when the
\* precise pass matched nothing
Discovery == IF PreciseMatches = << >> THEN BroadTable[LastResponse.html] ELSE PreciseMatches

\* cands is the first nodes of the discovery order disc, each node once,
\* at most cap of them
FirstOfDiscovery(cands, disc, cap) ==
    \E first \in {[n \in Range(disc) |-> Min({p \in DOMAIN disc : disc[p] = n})] @@ << >>} :
        /\ Len(cands) <= cap
        /\ Range(cands) \subseteq Range(disc)
        /\ \A i, j \in DOMAIN cands : i < j => first[cands[i]] < first[cands[j]]
        /\ \A n \in Range(disc) :
              n \notin Range(cands) =>
                  /\ Len(cands) = cap
                  /\ \A i \in DOMAIN cands : first[cands[i]] < first[n]

\* C10: the candidate list of a parsed page has at most 120 blocks, no node
\* twice, and is the first nodes of the discovery order; the broad scan
\* gives the blocks exactly when the precise pass matched nothing
C10_CandidatesBoundedInOrder ==
    (LastParsed /\ pc = "loop") =>
        /\ Len(candidates) <= 120
        /\ \A i, j \in DOMAIN candidates : i # j => candidates[i] # candidates[j]
        /\ FirstOfDiscovery(candidates, Discovery, 120)
        /\ PreciseMatches # << >> => Range(candidates) \subseteq Range(PreciseMatches)
        /\ PreciseMatches = << >> =>
              Range(candidates) = {n \in DOMAIN LastDoc.nodes : LastDoc.nodes[n].tag \in FallbackTags}

\* the long listing was parsed: more than 120 distinct nodes match, some
\* under two selectors, and the list stops at 120
C10_Witness ==
    /\ LastParsed /\ pc = "loop"
    /\ LastResponse.html = "big"
    /\ Cardinality(Range(PreciseMatches)) > 120
    /\ Len(PreciseMatches) > Cardinality(Range(PreciseMatches))
    /\ Len(candidates) = 120

\* the drop reasons of build_events_from_html
Reasons == {"too_short", "no_date", "out_of_window", "no_title", "virtual_without_metro", "not_target_metro"}

\* the last pass fetched a response that was not set aside as blocked or as
\* a JS shell: build_events_from_html was called on its page
BlockLoopEntered ==
    /\ fetched # << >>
    /\ fetched[Len(fetched)].response.kind = "response"
    /\ \A k \in ReviewsOf(Len(fetched)) :
          log.needs_manual_review[k].reason # "Blocked or JS-rendered shell detected"

\* the outcome the checks give a block in their order: the reason of the
\* first check that fails, or kept; a block without a readable date (none,
\* or one that is no calendar date) fails the date check
FirstFailing(f, day, inGroup) ==
    IF Len(f.text) < 30 THEN "too_short"
    ELSE IF f.date.kind # "datetime" THEN "no_date"
    ELSE IF BlockDay(f) < day \/ BlockDay(f) > day + 90 THEN "out_of_window"
    ELSE IF Len(f.title) < 4 THEN "no_title"
    ELSE IF f.virtual /\ ~f.metro /\ ~inGroup THEN "virtual_without_metro"
    ELSE IF ~f.metro /\ ~inGroup THEN "not_target_metro"
    ELSE "kept"

\* the outcome of every candidate of the last pass
OutcomesOf(pass, src) ==
    [k \in DOMAIN candidates |->
        FirstFailing(BlockFacts[pass.response.html][candidates[k]], pass.day, NamesMetro(src.group))]
    @@ << >>

HowMany(outs, o) == Cardinality({k \in DOMAIN outs : outs[k] = o})

\* the counts of record per are those of the outcomes outs
Conserved(per, outs) ==
    /\ DOMAIN per.drops \subseteq Reasons
    /\ \A r \in Reasons : DropCount(per, r) = HowMany(outs, r)
    /\ per.events_kept = HowMany(outs, "kept")
    /\ per.candidates_total = Len(outs)
    /\ per.candidates_total =
          per.events_kept + DropCount(per, "too_short") + DropCount(per, "no_date")
          + DropCount(per, "out_of_window") + DropCount(per, "no_title")
          + DropCount(per, "virtual_without_metro") + DropCount(per, "not_target_metro")
    /\ per.dated_blocks =
          per.candidates_total - DropCount(per, "too_short") - DropCount(per, "no_date")

\* the record of source i in the log is the one of its own pass, with the
\* counts of build_events_from_html
OwnCounts(i) ==
    /\ source_key(SOURCES[i]) \in DOMAIN log.sources
    /\ log.sources[source_key(SOURCES[i])].source_url = SOURCES[i].url
    /\ "drops" \in DOMAIN log.sources[source_key(SOURCES[i])]

\* C11: every candidate block of a page handed to build_events_from_html
\* ends kept or dropped under the reason of the first failing check (in the
\* order too_short, no_date, out_of_window, no_title, virtual_without_metro,
\* not_target_metro): the source has its record, whose drop counts and
\* events_kept are the counts of these outcomes, with candidates_total =
\* events_kept + all drop counts and dated_blocks = candidates_total -
\* drops[too_short] - drops[no_date]
C11_EveryBlockEndsInOneOutcome ==
    BlockLoopEntered =>
        /\ OwnCounts(Len(fetched))
        /\ Conserved(log.sources[source_key(SOURCES[Len(fetched)])],
                     OutcomesOf(fetched[Len(fetched)], SOURCES[Len(fetched)]))

\* the same of the passes that returned: the run did not abort in the page
C11_ConservedWhenThePassReturns ==
    (BlockLoopEntered /\ pc # "crashed") =>
        /\ OwnCounts(Len(fetched))
        /\ Len(evs) = log.sources[source_key(SOURCES[Len(fetched)])].events_kept
        /\ Conserved(log.sources[source_key(SOURCES[Len(fetched)])],
                     OutcomesOf(fetched[Len(fetched)], SOURCES[Len(fetched)]))

\* the records of the per-source section of a log
RecordsOf(l) == {l.sources[k] : k \in DOMAIN l.sources}

\* C12: the record written for a source whose pass has ended stays in the
\* per-source section of the run log, a later source with the same
\* organization and group label and another URL included, and the log that
\* is written holds as many records as sources_total, one for every source
C12_OneRecordPerSource ==
    /\ \A i \in Processed :
          \E per \in RecordsOf(log) : per.source_url = SOURCES[i].url
    /\ pc = "done" =>
          /\ Cardinality(DOMAIN output.log.sources) = output.log.sources_total
          /\ \A i \in DOMAIN SOURCES :
                \E per \in RecordsOf(output.log) : per.source_url = SOURCES[i].url

====
